---- MODULE Spec2Model ----
(***************************************************************************)
(* A model of the JupyterHub profile tools: the JSON profile store         *)
(* (profiles.json), the two dict_to_profile renderers, the command line    *)
(* of jupyterhub_profiles_tools.py and the launcher's import of            *)
(* jupyterhub_profiles.py.                                                 *)
(*                                                                         *)
(* A profile is a Python dict: a function from a subset of the keys        *)
(* "name", "shortname", "dir", "env_path", "args", "cls" to strings (and,  *)
(* for "args", a sequence of strings).  An optional command-line value is  *)
(* <<>> for Python's None and <<v>> for the value v.                       *)
(***************************************************************************)
EXTENDS Integers, Sequences, FiniteSets, TLC

(***************************************************************************)
(* Bounds of the model.                                                    *)
(***************************************************************************)
\* invocations of the tools in one behaviour of Spec
MaxOps == 2
\* concurrent command-line invocations in one behaviour of RaceSpec
NumInvocations == 2

(***************************************************************************)
(* The values the inputs are drawn from.                                   *)
(***************************************************************************)
None == <<>>
Some(v) == <<v>>
\* Python truthiness of an optional string: None and "" are falsy
Truthy(opt) == opt # None /\ opt[1] # ""

Shortnames == {"a", "b"}
Dirs == {"/p", "/w"}

RECURSIVE SumOver(_, _)
\* the sum of f[x] over the finite set S
SumOver(f, S) ==
    IF S = {} THEN 0
    ELSE LET x == CHOOSE y \in S : TRUE
         IN  f[x] + SumOver(f, S \ {x})

(***************************************************************************)
(* json.dump(profiles, file, indent=4): the number of bytes written.  The  *)
(* strings of the model are ASCII without characters that JSON escapes, so *)
(* a string s is written as Len(s) + 2 bytes.                              *)
(***************************************************************************)
\* "[]" for an empty list; else "[", per item a separator ("\n", then ",\n")
\* and the indent, then "\n", the closing indent and "]"
JsonListSize(sizes, indent) ==
    IF Len(sizes) = 0 THEN 2
    ELSE 1 + SumOver([i \in 1..Len(sizes) |->
                        (IF i = 1 THEN 1 ELSE 2) + indent + 4 + sizes[i]],
                     1..Len(sizes))
           + 1 + indent + 1

JsonStringSize(s) == Len(s) + 2

\* the value of key k of a profile, written at nesting level 2 (indent 8)
JsonValueSize(k, v) ==
    IF k = "args"
    THEN JsonListSize([i \in 1..Len(v) |-> JsonStringSize(v[i])], 8)
    ELSE JsonStringSize(v)

\* one profile, written at nesting level 1 (indent 4): "{}" when empty; else
\* "{", per key a separator, the indent, the quoted key, ": " and the value,
\* then "\n", the closing indent and "}"
JsonDictSize(profile) ==
    IF DOMAIN profile = {} THEN 2
    ELSE 1 + SumOver([k \in DOMAIN profile |->
                        8 + JsonStringSize(k) + 2 + JsonValueSize(k, profile[k])],
                     DOMAIN profile)
           + (2 * Cardinality(DOMAIN profile) - 1)
           + 1 + 4 + 1

JsonSize(profiles) ==
    JsonListSize([i \in 1..Len(profiles) |-> JsonDictSize(profiles[i])], 0)

RECURSIVE Join(_, _)
\* sep.join(strs)
Join(sep, strs) ==
    IF Len(strs) = 0 THEN ""
    ELSE IF Len(strs) = 1 THEN strs[1]
    ELSE strs[1] \o sep \o Join(sep, Tail(strs))

\* dict.get(key, default)
Get(d, key, default) == IF key \in DOMAIN d THEN d[key] ELSE default

\* the shell command both renderers build
ShellCommand(profile_config) ==
    LET workdir  == profile_config["dir"]
        env_path == Get(profile_config, "env_path", workdir \o "/.venv")
        args     == Join(" ", Get(profile_config, "args", <<>>))
    IN  "source " \o env_path \o "/bin/activate && cd " \o workdir
          \o " && exec jupyterhub-singleuser " \o args

LocalProcessSpawner == "jupyterhub.spawner.LocalProcessSpawner"

\* jupyterhub_profiles_tools.dict_to_profile
dict_to_profile(profile_config) ==
    << profile_config["name"],
       profile_config["shortname"],
       LocalProcessSpawner,
       [cmd |-> <<"/bin/bash", "-c", ShellCommand(profile_config)>>] >>

\* jupyterhub_profiles.dict_to_profile
profiles_dict_to_profile(profile_config) ==
    << profile_config["name"],
       profile_config["shortname"],
       Get(profile_config, "cls", LocalProcessSpawner),
       [cmd |-> <<"/bin/bash", "-c", ShellCommand(profile_config)>>] >>

(***************************************************************************)
(* Files.  A file is absent, holds a JSON array of profiles, or holds      *)
(* bytes json.load rejects (an empty file, a torn write, Python text).     *)
(* len is its length in bytes; canon says that its bytes are exactly what  *)
(* json.dump(data, indent=4) writes.                                       *)
(***************************************************************************)
Absent == [kind |-> "absent", data |-> <<>>, len |-> 0, canon |-> FALSE]
Malformed(n) == [kind |-> "malformed", data |-> <<>>, len |-> n, canon |-> FALSE]
Dumped(profiles) ==
    [kind |-> "json", data |-> profiles, len |-> JsonSize(profiles), canon |-> TRUE]
\* the same array as an editor saves it: the text followed by a newline
HandWritten(profiles) ==
    [kind |-> "json", data |-> profiles, len |-> JsonSize(profiles) + 1, canon |-> FALSE]

\* the launcher's configuration is Python text, not JSON: its length in bytes
ConfigLen == 393
ProfilesJson == "profiles.json"
ConfigPy == "jupyterhub_config.py"
Paths == {ProfilesJson, ConfigPy}

\* open(file_path, 'w'): creates the file or truncates it to no bytes
OpenWrite(f) == Malformed(0)

\* WriteDump on a file opened for appending: the bytes go to the end
WriteAppend(f, profiles) ==
    IF f.len = 0 THEN Dumped(profiles) ELSE Malformed(f.len + JsonSize(profiles))

\* json.dump into a file opened for writing and its close: the bytes go to
\* offset 0 of the file as it is by then; bytes another writer put beyond
\* them stay
WriteDump(f, profiles) ==
    IF JsonSize(profiles) >= f.len THEN Dumped(profiles) ELSE Malformed(f.len)

\* load_profiles that reads an absent file as an empty list
load_profiles_or_empty(files, file_path) ==
    LET f == files[file_path]
    IN  IF f.kind = "absent"
        THEN [status |-> "ok", profiles |-> <<>>]
        ELSE IF f.kind = "malformed"
        THEN [status |-> "JSONDecodeError", profiles |-> <<>>]
        ELSE [status |-> "ok", profiles |-> f.data]

\* load_profiles: the outcome and the list read
load_profiles(files, file_path) ==
    LET f == files[file_path]
    IN  IF f.kind = "absent"
        THEN [status |-> "FileNotFoundError", profiles |-> <<>>]
        ELSE IF f.kind = "malformed"
        THEN [status |-> "JSONDecodeError", profiles |-> <<>>]
        ELSE [status |-> "ok", profiles |-> f.data]

\* save_profiles run alone: the files afterwards
save_profiles(files, profiles, file_path) ==
    [files EXCEPT ![file_path] = WriteDump(OpenWrite(files[file_path]), profiles)]

(***************************************************************************)
(* The list operations of the handlers.                                    *)
(***************************************************************************)
\* {**profile, **updated_config}
Merge(profile, updated_config) ==
    [k \in DOMAIN profile \cup DOMAIN updated_config |->
        IF k \in DOMAIN updated_config THEN updated_config[k] ELSE profile[k]]

\* FirstMatch with the loop running on to the last match
LastMatch(profiles, shortname) ==
    LET hits == {i \in 1..Len(profiles) : profiles[i]["shortname"] = shortname}
    IN  IF hits = {} THEN 0 ELSE CHOOSE i \in hits : \A j \in hits : i >= j

\* the index the loop of change_profile stops at; 0 when it runs to the end
FirstMatch(profiles, shortname) ==
    LET hits == {i \in 1..Len(profiles) : profiles[i]["shortname"] = shortname}
    IN  IF hits = {} THEN 0 ELSE CHOOSE i \in hits : \A j \in hits : i <= j

RECURSIVE WithoutFirst(_, _)
\* Without that drops the first match only
WithoutFirst(profiles, shortname) ==
    IF Len(profiles) = 0 THEN <<>>
    ELSE IF Head(profiles)["shortname"] # shortname
    THEN <<Head(profiles)>> \o WithoutFirst(Tail(profiles), shortname)
    ELSE Tail(profiles)

RECURSIVE Without(_, _)
\* [profile for profile in profiles if profile['shortname'] != shortname]
Without(profiles, shortname) ==
    IF Len(profiles) = 0 THEN <<>>
    ELSE IF Head(profiles)["shortname"] # shortname
    THEN <<Head(profiles)>> \o Without(Tail(profiles), shortname)
    ELSE Without(Tail(profiles), shortname)

(***************************************************************************)
(* State of Spec: one invocation of the tools at a time.                   *)
(*   fs      the two files                                                 *)
(*   argv    the parsed command line of the last invocation                *)
(*   out     what the last invocation did: the handler, its arguments,     *)
(*           the exception it ended with ("ok" for none), whether it       *)
(*           called save_profiles, what it printed and what it returned    *)
(*   before  fs as the last invocation found it                            *)
(*   nops    invocations so far                                            *)
(* State of RaceSpec: NumInvocations command lines at once, each a process *)
(* of its own stepping through its system calls.                           *)
(*   fs          the two files (shared)                                    *)
(*   pc          where each invocation is: "start", "loaded" (the list is  *)
(*               read and changed in memory), "opened" (profiles.json is   *)
(*               open for writing), "done", "failed" (an exception)        *)
(*   task        each invocation's command and arguments                   *)
(*   mem         each invocation's local variable profiles                 *)
(*   loaded      the list each invocation read                             *)
(*   lastWriter  the invocation that wrote last (0: none)                  *)
(*   lastOnto    the length profiles.json had when that write began        *)
(*   raced       some invocation opened profiles.json for writing while    *)
(*               another had loaded it and not yet begun to save           *)
(***************************************************************************)
VARIABLES fs, argv, out, before, nops, pc, task, mem, loaded, lastWriter, lastOnto,
          raced

seqVars == <<argv, out, before, nops>>
raceVars == <<pc, task, mem, loaded, lastWriter, lastOnto, raced>>
vars == <<fs, argv, out, before, nops, pc, task, mem, loaded, lastWriter, lastOnto, raced>>

Invocations == 1..NumInvocations

Outcome(cmd, arg, status, wrote, msg, ret) ==
    [cmd |-> cmd, arg |-> arg, status |-> status, wrote |-> wrote,
     msg |-> msg, ret |-> ret]

\* a handler that load_profiles' exception ends
Raised(cmd, arg, status) ==
    fs' = fs /\ out' = Outcome(cmd, arg, status, FALSE, "", <<>>)

\* add_profile that refuses a shortname the store already holds
add_profile_unique(profile_config) ==
    LET l == load_profiles(fs, ProfilesJson)
    IN  IF l.status # "ok" THEN Raised("add", <<profile_config>>, l.status)
        ELSE IF \E i \in 1..Len(l.profiles) :
                    l.profiles[i]["shortname"] = profile_config["shortname"]
        THEN /\ fs' = fs
             /\ out' = Outcome("add", <<profile_config>>, "ok", FALSE, "exists", <<>>)
        ELSE /\ fs' = save_profiles(fs, Append(l.profiles, profile_config), ProfilesJson)
             /\ out' = Outcome("add", <<profile_config>>, "ok", TRUE, "added", <<>>)

add_profile(profile_config) ==
    LET l == load_profiles(fs, ProfilesJson)
    IN  IF l.status # "ok" THEN Raised("add", <<profile_config>>, l.status)
        ELSE /\ fs' = save_profiles(fs, Append(l.profiles, profile_config), ProfilesJson)
             /\ out' = Outcome("add", <<profile_config>>, "ok", TRUE, "added", <<>>)

\* change_profile that saves after the loop whether or not it found a match
change_profile_always_saves(shortname, updated_config) ==
    LET l == load_profiles(fs, ProfilesJson)
        i == FirstMatch(l.profiles, shortname)
    IN  IF l.status # "ok" THEN Raised("change", <<shortname, updated_config>>, l.status)
        ELSE /\ fs' = save_profiles(fs,
                        IF i # 0
                        THEN [l.profiles EXCEPT ![i] = Merge(l.profiles[i], updated_config)]
                        ELSE l.profiles,
                        ProfilesJson)
             /\ out' = Outcome("change", <<shortname, updated_config>>, "ok", TRUE,
                               IF i # 0 THEN "updated" ELSE "not found", <<>>)

change_profile(shortname, updated_config) ==
    LET l == load_profiles(fs, ProfilesJson)
        i == FirstMatch(l.profiles, shortname)
    IN  IF l.status # "ok" THEN Raised("change", <<shortname, updated_config>>, l.status)
        ELSE IF i # 0
        THEN /\ fs' = save_profiles(fs,
                        [l.profiles EXCEPT ![i] = Merge(l.profiles[i], updated_config)],
                        ProfilesJson)
             /\ out' = Outcome("change", <<shortname, updated_config>>, "ok", TRUE,
                               "updated", <<>>)
        ELSE /\ fs' = fs
             /\ out' = Outcome("change", <<shortname, updated_config>>, "ok", FALSE,
                               "not found", <<>>)

remove_profile(shortname) ==
    LET l == load_profiles(fs, ProfilesJson)
    IN  IF l.status # "ok" THEN Raised("remove", <<shortname>>, l.status)
        ELSE /\ fs' = save_profiles(fs, Without(l.profiles, shortname), ProfilesJson)
             /\ out' = Outcome("remove", <<shortname>>, "ok", TRUE, "removed", <<>>)

\* prints every profile; the printed profiles are kept in ret
display_profiles ==
    LET l == load_profiles(fs, ProfilesJson)
    IN  IF l.status # "ok" THEN Raised("display", <<>>, l.status)
        ELSE /\ fs' = fs
             /\ out' = Outcome("display", <<>>, "ok", FALSE, "", l.profiles)

\* export_profiles_to_config that writes what it rendered to config_path
export_profiles_writes_config(json_path, config_path) ==
    LET l == load_profiles(fs, json_path)
    IN  IF l.status # "ok" THEN Raised("export", <<json_path, config_path>>, l.status)
        ELSE /\ fs' = [fs EXCEPT ![config_path] = Malformed(ConfigLen + Len(l.profiles))]
             /\ out' = Outcome("export", <<json_path, config_path>>, "ok", FALSE, "",
                               [i \in 1..Len(l.profiles) |-> dict_to_profile(l.profiles[i])])

export_profiles_to_config(json_path, config_path) ==
    LET l == load_profiles(fs, json_path)
    IN  IF l.status # "ok" THEN Raised("export", <<json_path, config_path>>, l.status)
        ELSE /\ fs' = fs
             /\ out' = Outcome("export", <<json_path, config_path>>, "ok", FALSE, "",
                               [i \in 1..Len(l.profiles) |-> dict_to_profile(l.profiles[i])])

(***************************************************************************)
(* The command line (__main__ of jupyterhub_profiles_tools.py).            *)
(***************************************************************************)
Invoke(args) ==
    /\ nops < MaxOps
    /\ nops' = nops + 1
    /\ before' = fs
    /\ argv' = args
    /\ UNCHANGED raceVars

\* the add command leaving env_path out of the profile when it is not given
MainAddNoDefault(name, shortname, dir, env_path, args) ==
    /\ Invoke([command |-> "add", name |-> name, shortname |-> shortname, dir |-> dir,
               env_path |-> env_path, args |-> args])
    /\ add_profile(IF Truthy(env_path)
                   THEN [name |-> name, shortname |-> shortname, dir |-> dir,
                         env_path |-> env_path[1], args |-> args]
                   ELSE [name |-> name, shortname |-> shortname, dir |-> dir,
                         args |-> args])

MainAdd(name, shortname, dir, env_path, args) ==
    /\ Invoke([command |-> "add", name |-> name, shortname |-> shortname, dir |-> dir,
               env_path |-> env_path, args |-> args])
    /\ add_profile([name |-> name, shortname |-> shortname, dir |-> dir,
                    env_path |-> IF Truthy(env_path) THEN env_path[1] ELSE dir \o "/.venv",
                    args |-> args])

\* the updated_config the change command builds
UpdatedConfig(name, dir, env_path, args) ==
    LET opts == [name |-> name, dir |-> dir, env_path |-> env_path]
        keys == {k \in DOMAIN opts : Truthy(opts[k])}
                  \cup (IF args # None THEN {"args"} ELSE {})
    IN  [k \in keys |-> IF k = "args" THEN args[1] ELSE opts[k][1]]

MainChange(shortname, name, dir, env_path, args) ==
    /\ Invoke([command |-> "change", shortname |-> shortname, name |-> name, dir |-> dir,
               env_path |-> env_path, args |-> args])
    /\ change_profile(shortname, UpdatedConfig(name, dir, env_path, args))

MainRemove(shortname) ==
    /\ Invoke([command |-> "remove", shortname |-> shortname])
    /\ remove_profile(shortname)

MainDisplay ==
    /\ Invoke([command |-> "display"])
    /\ display_profiles

MainExport(json_path, config_path) ==
    /\ Invoke([command |-> "export", json_path |-> json_path, config_path |-> config_path])
    /\ export_profiles_to_config(json_path, config_path)

\* the launcher imports jupyterhub_profiles.py: jupyterhub_profiles is kept in ret
ImportProfiles ==
    LET l == load_profiles(fs, ProfilesJson)
    IN  /\ Invoke([command |-> "import jupyterhub_profiles"])
        /\ IF l.status # "ok" THEN Raised("import", <<>>, l.status)
           ELSE /\ fs' = fs
                /\ out' = Outcome("import", <<>>, "ok", FALSE, "",
                             [i \in 1..Len(l.profiles) |->
                                 profiles_dict_to_profile(l.profiles[i])])

(***************************************************************************)
(* Initial states and inputs.                                              *)
(***************************************************************************)
\* a profile written by hand with the required keys only
PA == [name |-> "A", shortname |-> "a", dir |-> "/p"]
\* a profile written by hand with every key of the file format
PB == [name |-> "B", shortname |-> "b", dir |-> "/w", env_path |-> "/e",
       args |-> <<"-x", "-y">>, cls |-> "C"]

InitialProfilesJson ==
    { Absent, Malformed(0), Dumped(<<>>), HandWritten(<<PA>>), HandWritten(<<PA, PB>>) }

InitialConfigPy == { Absent, Malformed(ConfigLen) }

OptNames == {None, Some("M")}
OptDirs == {None, Some("/w")}
OptEnvPaths == {None, Some("/e")}
ArgLists == {<<>>, <<"-x", "-y">>}
OptArgLists == {None, Some(<<>>)}

Init ==
    /\ fs \in [Paths -> InitialProfilesJson \cup InitialConfigPy]
    /\ fs[ProfilesJson] \in InitialProfilesJson
    /\ fs[ConfigPy] \in InitialConfigPy
    /\ argv = [command |-> ""]
    /\ out = Outcome("", <<>>, "ok", FALSE, "", <<>>)
    /\ before = fs
    /\ nops = 0
    /\ pc = [i \in Invocations |-> "done"]
    /\ task = [i \in Invocations |-> [command |-> ""]]
    /\ mem = [i \in Invocations |-> <<>>]
    /\ loaded = [i \in Invocations |-> <<>>]
    /\ lastWriter = 0
    /\ lastOnto = 0
    /\ raced = FALSE

Next ==
    \/ \E shortname \in Shortnames, dir \in Dirs, env_path \in OptEnvPaths,
          args \in ArgLists :
            MainAdd("N", shortname, dir, env_path, args)
    \/ \E shortname \in Shortnames, name \in OptNames, dir \in OptDirs,
          env_path \in OptEnvPaths, args \in OptArgLists :
            MainChange(shortname, name, dir, env_path, args)
    \/ \E shortname \in Shortnames : MainRemove(shortname)
    \/ MainDisplay
    \/ \E json_path \in Paths, config_path \in Paths : MainExport(json_path, config_path)
    \/ ImportProfiles

Spec == Init /\ [][Next]_vars

(***************************************************************************)
(* RaceSpec: concurrent invocations.  Each is a process of its own; its    *)
(* steps are its system calls on profiles.json: the read of load_profiles  *)
(* (the list is then changed in the process's memory), the open for        *)
(* writing of save_profiles, which truncates, and the write of the dump,   *)
(* which the close flushes in one piece (the stores here are far below     *)
(* the 8192 bytes of the file object's buffer).  The read is one step: a   *)
(* read that a concurrent write tears sees a complete array followed by    *)
(* further bytes and ends in JSONDecodeError, as does the read of the      *)
(* file between that writer's open and its write, which is a step here.    *)
(***************************************************************************)
RaceTasks ==
    { [command |-> "add",
       profile_config |-> [name |-> "N", shortname |-> sn, dir |-> "/p",
                           env_path |-> "/p/.venv", args |-> <<>>]] : sn \in Shortnames }
    \cup { [command |-> "change", shortname |-> "a", updated_config |-> [dir |-> "/w"]] }
    \cup { [command |-> "remove", shortname |-> sn] : sn \in Shortnames }

\* the list a handler saves, from the list it loaded
Computed(t, list) ==
    IF t.command = "add" THEN Append(list, t.profile_config)
    ELSE IF t.command = "remove" THEN Without(list, t.shortname)
    ELSE LET i == FirstMatch(list, t.shortname)
         IN  IF i = 0 THEN list
             ELSE [list EXCEPT ![i] = Merge(list[i], t.updated_config)]

\* whether the handler goes on to save_profiles
Saves(t, list) == t.command # "change" \/ FirstMatch(list, t.shortname) # 0

RaceLoad(i, t) ==
    LET l == load_profiles(fs, ProfilesJson)
    IN  /\ pc[i] = "start"
        /\ task' = [task EXCEPT ![i] = t]
        /\ IF l.status # "ok"
           THEN /\ pc' = [pc EXCEPT ![i] = "failed"]
                /\ UNCHANGED <<mem, loaded>>
           ELSE /\ loaded' = [loaded EXCEPT ![i] = l.profiles]
                /\ mem' = [mem EXCEPT ![i] = Computed(t, l.profiles)]
                /\ pc' = [pc EXCEPT ![i] = IF Saves(t, l.profiles) THEN "loaded" ELSE "done"]
        /\ UNCHANGED <<fs, lastWriter, lastOnto, raced, seqVars>>

RaceOpen(i) ==
    /\ pc[i] = "loaded"
    /\ fs' = [fs EXCEPT ![ProfilesJson] = OpenWrite(@)]
    /\ pc' = [pc EXCEPT ![i] = "opened"]
    /\ raced' = (raced \/ \E j \in Invocations \ {i} : pc[j] = "loaded")
    /\ UNCHANGED <<task, mem, loaded, lastWriter, lastOnto, seqVars>>

RaceWrite(i) ==
    /\ pc[i] = "opened"
    /\ fs' = [fs EXCEPT ![ProfilesJson] = WriteDump(@, mem[i])]
    /\ pc' = [pc EXCEPT ![i] = "done"]
    /\ lastWriter' = i
    /\ lastOnto' = fs[ProfilesJson].len
    /\ UNCHANGED <<task, mem, loaded, raced, seqVars>>

RaceInit ==
    /\ fs \in [Paths -> InitialProfilesJson \cup InitialConfigPy]
    /\ fs[ProfilesJson] \in InitialProfilesJson
    /\ fs[ConfigPy] \in InitialConfigPy
    /\ argv = [command |-> ""]
    /\ out = Outcome("", <<>>, "ok", FALSE, "", <<>>)
    /\ before = fs
    /\ nops = 0
    /\ pc = [i \in Invocations |-> "start"]
    /\ task = [i \in Invocations |-> [command |-> ""]]
    /\ mem = [i \in Invocations |-> <<>>]
    /\ loaded = [i \in Invocations |-> <<>>]
    /\ lastWriter = 0
    /\ lastOnto = 0
    /\ raced = FALSE

RaceNext ==
    \E i \in Invocations :
        \/ \E t \in RaceTasks : RaceLoad(i, t)
        \/ RaceOpen(i)
        \/ RaceWrite(i)

RaceSpec == RaceInit /\ [][RaceNext]_vars

(***************************************************************************)
(* The claims checked under Spec.                                          *)
(***************************************************************************)
Store == fs[ProfilesJson]
StoreBefore == before[ProfilesJson]
HasShortname(list, shortname) ==
    \E i \in 1..Len(list) : list[i]["shortname"] = shortname
\* the handler ran on a store that load_profiles could read
Ran(command) == nops > 0 /\ out.cmd = command /\ StoreBefore.kind = "json"

\* C1: add on a store holding S always succeeds and rewrites the store as S
\* followed by the profile: the length grows by one, every previous profile
\* keeps its position and the new profile is last, whether or not S holds a
\* profile with the same shortname.
C1_AddAppends ==
    Ran("add") =>
        /\ out.status = "ok" /\ out.wrote
        /\ Store.kind = "json"
        /\ Len(Store.data) = Len(StoreBefore.data) + 1
        /\ \A i \in 1..Len(StoreBefore.data) : Store.data[i] = StoreBefore.data[i]
        /\ Store.data[Len(Store.data)] = out.arg[1]

\* an add of a shortname the store held already
C1_Witness ==
    /\ Ran("add") /\ out.status = "ok"
    /\ HasShortname(StoreBefore.data, out.arg[1]["shortname"])
    /\ Len(Store.data) = Len(StoreBefore.data) + 1

\* C2: change on a store with a matching profile replaces exactly the first
\* match by the merge (the patch's keys take the patch's values, every other
\* key keeps its value); every other profile, later matches included, the
\* order and the length stay.
C2_ChangeMergesFirst ==
    (Ran("change") /\ HasShortname(StoreBefore.data, out.arg[1])) =>
        LET old   == StoreBefore.data
            new   == Store.data
            patch == out.arg[2]
            i     == CHOOSE k \in 1..Len(old) :
                        /\ old[k]["shortname"] = out.arg[1]
                        /\ \A j \in 1..(k - 1) : old[j]["shortname"] # out.arg[1]
        IN  /\ out.status = "ok" /\ out.msg = "updated"
            /\ Store.kind = "json"
            /\ Len(new) = Len(old)
            /\ \A j \in 1..Len(old) : j # i => new[j] = old[j]
            /\ DOMAIN new[i] = DOMAIN old[i] \cup DOMAIN patch
            /\ \A k \in DOMAIN patch : new[i][k] = patch[k]
            /\ \A k \in DOMAIN old[i] \ DOMAIN patch : new[i][k] = old[i][k]

\* a change that patched the first of two profiles with the shortname, giving
\* it a new value for a key it had and leaving the second as it was
C2_Witness ==
    /\ Ran("change")
    /\ \E i, j \in 1..Len(StoreBefore.data) :
          /\ i < j
          /\ StoreBefore.data[i]["shortname"] = out.arg[1]
          /\ StoreBefore.data[j]["shortname"] = out.arg[1]
          /\ "dir" \in DOMAIN out.arg[2]
          /\ StoreBefore.data[i]["dir"] # out.arg[2]["dir"]
          /\ Store.data[i]["dir"] = out.arg[2]["dir"]
          /\ Store.data[i]["name"] = StoreBefore.data[i]["name"]
          /\ Store.data[j] = StoreBefore.data[j]
          /\ Store.data[j]["dir"] # out.arg[2]["dir"]

\* C3: change with a shortname no stored profile has never calls
\* save_profiles: both files are byte for byte what they were, and the
\* handler prints "not found" and raises nothing.
C3_ChangeUnknownNoWrite ==
    (Ran("change") /\ ~HasShortname(StoreBefore.data, out.arg[1])) =>
        /\ fs = before
        /\ ~out.wrote
        /\ out.status = "ok"
        /\ out.msg = "not found"

\* a change of an unknown shortname on a store a rewrite would have reformatted
C3_Witness ==
    /\ Ran("change") /\ ~HasShortname(StoreBefore.data, out.arg[1])
    /\ out.arg[2] # <<>>
    /\ Len(StoreBefore.data) > 0
    /\ ~StoreBefore.canon /\ ~Store.canon
    /\ out.msg = "not found"

\* C4: remove rewrites the store as the profiles whose shortname differs from
\* the argument, in their order: no profile with the shortname remains, and
\* when none had it the profiles are unchanged and the file is rewritten all
\* the same.
C4_RemoveFilters ==
    Ran("remove") =>
        LET old  == StoreBefore.data
            new  == Store.data
            keep == {i \in 1..Len(old) : old[i]["shortname"] # out.arg[1]}
        IN  /\ out.status = "ok" /\ out.wrote
            /\ Store.kind = "json" /\ Store.canon
            /\ ~HasShortname(new, out.arg[1])
            /\ Len(new) = Cardinality(keep)
            /\ \A i \in keep : new[Cardinality({j \in keep : j <= i})] = old[i]
            /\ (~HasShortname(old, out.arg[1]) => new = old)

\* a remove that dropped two profiles with the shortname and kept another
C4_Witness ==
    /\ Ran("remove")
    /\ Cardinality({i \in 1..Len(StoreBefore.data) :
                       StoreBefore.data[i]["shortname"] = out.arg[1]}) >= 2
    /\ Len(Store.data) >= 1
    /\ Len(Store.data) = Len(StoreBefore.data) - 2

\* C5: no two stored profiles have the same shortname (every initial store
\* has pairwise distinct shortnames).
C5_ShortnamesUnique ==
    Store.kind = "json" =>
        \A i, j \in 1..Len(Store.data) :
            i # j => Store.data[i]["shortname"] # Store.data[j]["shortname"]

\* C7: on an absent profiles.json every handler that loads it ends with
\* FileNotFoundError before any write, and the file is absent afterwards.
C7_AbsentStaysAbsent ==
    (nops > 0 /\ StoreBefore.kind = "absent") =>
        /\ Store.kind = "absent"
        /\ fs = before
        /\ ~out.wrote
        /\ (out.cmd \in {"add", "change", "remove", "display", "import"}
              => out.status = "FileNotFoundError")
        /\ ((out.cmd = "export" /\ out.arg[1] = ProfilesJson)
              => out.status = "FileNotFoundError")

\* a second mutating invocation in a row failing on the absent store
C7_Witness ==
    /\ nops = 2
    /\ StoreBefore.kind = "absent" /\ Store.kind = "absent"
    /\ argv.command = "add"
    /\ out.status = "FileNotFoundError"

\* C8: the spawner class export returns for a profile is the profile's cls,
\* or the default when it has none, and the tuple is the one the launcher's
\* dict_to_profile builds.
C8_ExportHonoursCls ==
    (nops > 0 /\ out.cmd = "export" /\ out.status = "ok") =>
        LET stored == before[out.arg[1]].data
        IN  \A i \in 1..Len(stored) :
               /\ out.ret[i][3] = (IF "cls" \in DOMAIN stored[i] THEN stored[i]["cls"]
                                   ELSE "jupyterhub.spawner.LocalProcessSpawner")
               /\ out.ret[i] = profiles_dict_to_profile(stored[i])

C10_EnvPathDoesNotFollowDir ==
    /\ (Ran("add") /\ argv.command = "add") =>
          LET added == Store.data[Len(Store.data)]
          IN  /\ "env_path" \in DOMAIN added
              /\ added["env_path"] = (IF argv.env_path = None
                                      THEN argv.dir \o "/.venv"
                                      ELSE argv.env_path[1])
    /\ (/\ Ran("change") /\ argv.command = "change"
        /\ HasShortname(StoreBefore.data, argv.shortname)
        /\ argv.dir # None /\ argv.env_path = None) =>
          LET i   == CHOOSE k \in 1..Len(StoreBefore.data) :
                        /\ StoreBefore.data[k]["shortname"] = argv.shortname
                        /\ \A j \in 1..(k - 1) :
                              StoreBefore.data[j]["shortname"] # argv.shortname
              old == StoreBefore.data[i]
              new == Store.data[i]
          IN  /\ new["dir"] = argv.dir[1]
              /\ ("env_path" \in DOMAIN old) =>
                    /\ "env_path" \in DOMAIN new
                    /\ new["env_path"] = old["env_path"]
                    /\ dict_to_profile(new)[4]["cmd"][3] =
                          "source " \o old["env_path"] \o "/bin/activate && cd "
                            \o argv.dir[1] \o " && exec jupyterhub-singleuser "
                            \o Join(" ", Get(new, "args", <<>>))

\* add with dir /p and no --env_path, then change --dir /w: the profile
\* activates /p/.venv and changes to /w
C10_Witness ==
    /\ nops = 2 /\ Ran("change") /\ argv.dir = Some("/w") /\ argv.env_path = None
    /\ \E i \in 1..Len(Store.data) :
          /\ StoreBefore.data[i]["dir"] = "/p"
          /\ StoreBefore.data[i]["env_path"] = "/p/.venv"
          /\ StoreBefore.data[i]["name"] = "N"
          /\ Store.data[i]["dir"] = "/w"
          /\ Store.data[i]["env_path"] = "/p/.venv"
          /\ dict_to_profile(Store.data[i])[4]["cmd"][3] =
                "source /p/.venv/bin/activate && cd /w && exec jupyterhub-singleuser "

(***************************************************************************)
(* The claim checked under RaceSpec.                                       *)
(***************************************************************************)
AllFinished == \A i \in Invocations : pc[i] \in {"done", "failed"}

\* C6 as stated: after invocations that raced, the file is exactly the list the
\* invocation that wrote last computed.
C6_LastSaverWinsExactly ==
    (AllFinished /\ raced /\ lastWriter # 0) =>
        fs[ProfilesJson] = Dumped(mem[lastWriter])

\* C6: when all invocations have ended, the list the last writer wrote is its
\* own command applied to the list it loaded itself; the file is exactly that
\* list unless the write began on a file that was longer than the bytes
\* written, and then the file has that length and is not valid JSON.
C6_LastSaverWinsOrTears ==
    (AllFinished /\ lastWriter # 0) =>
        LET w    == lastWriter
            t    == task[w]
            old  == loaded[w]
            new  == mem[w]
        IN  /\ t.command = "add" => new = old \o <<t.profile_config>>
            /\ t.command = "remove" =>
                  new = SelectSeq(old, LAMBDA q : q["shortname"] # t.shortname)
            /\ t.command = "change" =>
                  /\ Len(new) = Len(old)
                  /\ \E i \in 1..Len(old) :
                        /\ old[i]["shortname"] = t.shortname
                        /\ \A j \in 1..(i - 1) : old[j]["shortname"] # t.shortname
                        /\ new[i]["dir"] = t.updated_config["dir"]
                        /\ \A j \in 1..Len(old) : j # i => new[j] = old[j]
            /\ IF lastOnto <= JsonSize(new)
               THEN fs[ProfilesJson] = Dumped(new)
               ELSE fs[ProfilesJson] = Malformed(lastOnto)

\* two adds that both loaded the same n profiles before either saved: the
\* store ends with n + 1 profiles, the last writer's, and the other's is lost
C6_Witness ==
    /\ AllFinished /\ raced /\ lastWriter # 0
    /\ \E i, j \in Invocations :
          /\ i # j /\ j = lastWriter
          /\ pc[i] = "done" /\ pc[j] = "done"
          /\ task[i].command = "add" /\ task[j].command = "add"
          /\ task[i].profile_config # task[j].profile_config
          /\ loaded[i] = loaded[j]
          /\ fs[ProfilesJson].kind = "json"
          /\ Len(fs[ProfilesJson].data) = Len(loaded[i]) + 1
          /\ fs[ProfilesJson].data = mem[j]
          /\ \A k \in 1..Len(fs[ProfilesJson].data) :
                fs[ProfilesJson].data[k] # task[i].profile_config
====
